---- MODULE Spec2Model ----
(***************************************************************************)
(* A model of pactools' preprocessing core:                                *)
(*   - dehummer / single_estimate      (pactools/utils/dehumming.py)       *)
(*   - Arma.estimate                   (pactools/utils/arma.py)            *)
(*   - decimate, whiten                (pactools/preprocess.py)            *)
(*                                                                         *)
(* Conventions.                                                            *)
(*   - Frequencies are integers in units of 0.01 Hz (50.0 Hz = 5000), so   *)
(*     the two search steps 0.1 Hz and 0.01 Hz are 10 and 1.               *)
(*   - Real numbers are exact rationals <<num, den>> (den > 0, reduced):   *)
(*     floating-point rounding is not modelled, an equality such as        *)
(*     w[i] + w[i+h] = 1 stands for equality up to rounding.               *)
(*   - numpy arrays are functions on 0..n-1 (psd) or sequences (signals);  *)
(*     a sequence index t+1 stands for the array index t.                  *)
(*   - Each program has its own specification (SpecDehum, SpecWindow, ...) *)
(*     over the shared variables; the variables of the other programs stay *)
(*     at their idle values.                                               *)
(***************************************************************************)
EXTENDS Integers, Sequences, FiniteSets, TLC

VARIABLES
    \* ---- dehummer: arguments
    sig, fs, enf, hmaxArg, blklen,
    \* ---- dehummer: environment (content of the input, build of the interpreter)
    humf, deltaOrder,
    \* ---- dehummer: locals
    hmax, window, result, freq, kf, tmid, tstart, tstop, wstart, wstop,
    f0, best_f, best_sigout, best_energy, dpos, delta, shiftIdx,
    \* ---- dehummer: control, returned value, bookkeeping of the accumulation
    pc, ret, cover, unfitted, nsolve,
    \* ---- window construction on its own
    base,
    \* ---- whiten (fs, enf in Hz there) and Arma: the spectrum and the notch loop
    psd, fftlen, d_enf, k, kmin, kmax, interpol,
    \* ---- Arma: the model
    ordar, ordma, AR_, MA,
    \* ---- decimate
    decimation_factor, d1, d2, stages

dehumVars == <<sig, fs, enf, hmaxArg, blklen, humf, deltaOrder, hmax, window,
               result, freq, kf, tmid, tstart, tstop, wstart, wstop, f0, best_f,
               best_sigout, best_energy, dpos, delta, shiftIdx, pc, ret, cover,
               unfitted, nsolve>>

spectrumVars == <<psd, fftlen>>

whitenVars == <<d_enf, k, kmin, kmax, interpol>>

armaVars == <<ordar, ordma, AR_, MA>>

decimateVars == <<decimation_factor, d1, d2, stages>>

vars == <<dehumVars, base, spectrumVars, whitenVars, armaVars, decimateVars>>

\* the variables of the programs that are not running
SpectrumIdle == psd = <<>> /\ fftlen = 0

WhitenIdle == d_enf = 0 /\ k = 0 /\ kmin = 0 /\ kmax = 0 /\ interpol = <<>>

ArmaIdle == ordar = 0 /\ ordma = 0 /\ AR_ = <<>> /\ MA = <<>>

DecimateIdle == decimation_factor = 0 /\ d1 = 0 /\ d2 = 0 /\ stages = <<>>

DehumLocalsIdle ==
    /\ hmax = 0 /\ window = <<>> /\ result = <<>> /\ freq = <<>> /\ kf = 0
    /\ tmid = 0 /\ tstart = 0 /\ tstop = 0 /\ wstart = 0 /\ wstop = 0
    /\ f0 = 0 /\ best_f = 0 /\ best_sigout = <<>> /\ best_energy = 0
    /\ dpos = 0 /\ delta = 0 /\ shiftIdx = 0
    /\ cover = <<>> /\ unfitted = TRUE /\ nsolve = 0

DehumIdle ==
    /\ hmaxArg = 0 /\ blklen = 0 /\ humf = 0 /\ deltaOrder = <<>>
    /\ DehumLocalsIdle

dehumOnly == <<hmaxArg, blklen, humf, deltaOrder, hmax, window, result, freq, kf,
               tmid, tstart, tstop, wstart, wstop, f0, best_f, best_sigout,
               best_energy, dpos, delta, shiftIdx, cover, unfitted, nsolve>>

notDehum == <<base, spectrumVars, whitenVars, armaVars, decimateVars>>

----------------------------------------------------------------------------
(* Bounds of the model *)

MaxLen == 4

MaxHalf == 2

MaxHarm == 2

MaxWinHalf == 3

WinMax == 4

----------------------------------------------------------------------------
(* Exact rational arithmetic *)

Abs(x) == IF x < 0 THEN -x ELSE x

Min(a, b) == IF a < b THEN a ELSE b

Max(a, b) == IF a > b THEN a ELSE b

RECURSIVE GCD(_, _)
GCD(a, b) == IF b = 0 THEN a ELSE GCD(b, a % b)

RNorm(n, d) ==
    LET s == IF d < 0 THEN -1 ELSE 1
        g == GCD(Abs(n), Abs(d))
    IN  <<(s * n) \div g, (s * d) \div g>>

RInt(i) == <<i, 1>>

RAdd(x, y) == RNorm(x[1] * y[2] + y[1] * x[2], x[2] * y[2])

RMul(x, y) == RNorm(x[1] * y[1], x[2] * y[2])

RDiv(x, y) == RNorm(x[1] * y[2], x[2] * y[1])

RNeg(x) == <<-x[1], x[2]>>

RSub(x, y) == RAdd(x, RNeg(y))

RZero == RInt(0)

ROne == RInt(1)

RECURSIVE SumSq(_)
SumSq(s) == IF s = <<>> THEN 0 ELSE Head(s) * Head(s) + SumSq(Tail(s))

Slice(s, a, b) == [i \in 1..(b - a) |-> s[a + i]]

Zeros(n) == [i \in 1..n |-> 0]

----------------------------------------------------------------------------
(* dehummer: the overlap-add window *)

\* np.hamming(N), 0.54 - 0.46 cos(2 pi n / (N-1)), in hundredths
HammingPct(N) ==
    CASE N = 2 -> <<8, 8>>
      [] N = 4 -> <<8, 77, 77, 8>>
      [] N = 6 -> <<8, 40, 91, 91, 40, 8>>
      [] N = 8 -> <<8, 25, 64, 95, 95, 64, 25, 8>>

hamming(N) == [i \in 1..N |-> RNorm(HammingPct(N)[i], 100)]

\* window[0:h] /= window[0:h] + window[h:N];  window[h:N] = flipud(window[0:h])
OverlapWindowNoFlip(w) ==
    LET N == Len(w)
        h == N \div 2
    IN  [i \in 1..N |-> IF i <= h THEN RDiv(w[i], RAdd(w[i], w[h + i])) ELSE w[i]]

OverlapWindow(w) ==
    LET N == Len(w)
        h == N \div 2
        first == [i \in 1..h |-> RDiv(w[i], RAdd(w[i], w[h + i]))]
    IN  [i \in 1..N |-> IF i <= h THEN first[i] ELSE first[N + 1 - i]]

----------------------------------------------------------------------------
(* dehummer: the regression of one block                                   *)
(*                                                                         *)
(* single_estimate builds the harmonic basis X (len(sigin) x 2*hmax), and  *)
(* returns X theta with theta = solve(X'X, X'sigin): the least-squares     *)
(* projection of the block on the harmonics of f.  The cosines are not     *)
(* computable here; what the projection removes is fixed by the content of *)
(* the input, the frequency humf of the hum it carries (NoHum: none):      *)
(* all of the block at f = humf, half of it within 0.1 Hz of humf, nothing *)
(* further away.  A zero block has X'sigin = 0, hence theta = 0.           *)
(* With fewer samples than basis columns X'X is singular: linalg.solve     *)
(* raises LinAlgError when the factorisation meets an exactly zero pivot,  *)
(* and otherwise returns a solution of the normal equations, which then    *)
(* fits every sample of the block.  Which of the two happens depends on    *)
(* the rounding of the build, so both are outcomes.                        *)

NoHum == 0

SigVals == {0, 2}

HumFreqs == {NoHum, 5000, 5023}

FsVals == {6000, 40000}

EnfVals == {5000}

RankDeficient(sigin, hm) == Len(sigin) < 2 * hm

\* in halves: 2 = all of the block, 1 = half of it, 0 = nothing
HumResponse(f) ==
    IF humf = NoHum THEN 0
    ELSE IF f = humf THEN 2
    ELSE IF Abs(f - humf) < 10 THEN 1
    ELSE 0

SolveOutcomes(sigin, hm) ==
    IF RankDeficient(sigin, hm) THEN {"LinAlgError", "solved"} ELSE {"solved"}

single_estimate(sigin, f, fs_, hm) ==
    IF RankDeficient(sigin, hm)
    THEN sigin
    ELSE [t \in 1..Len(sigin) |-> (sigin[t] * HumResponse(f)) \div 2]

----------------------------------------------------------------------------
(* dehummer: the block loop *)

ShiftMax == 9

\* np.r_[-shifts[::-1], shifts] with shifts = 1..shift_max
Shifts == [i \in 1..(2 * ShiftMax) |->
              IF i <= ShiftMax THEN i - ShiftMax - 1 ELSE i - ShiftMax]

\* for delta in {0.1, 0.01}: a set literal, iterated in the order of the
\* interpreter's hash table, which the language leaves open.  CPython 3 puts
\* 0.1 in slot 0 and 0.01 in slot 4 of the 8 slots and yields 0.1 first; by
\* the CPython 2.7 float hash both fall in slot 6, the one inserted second
\* is moved to slot 5 and is yielded first.
DeltaOrders == {<<10, 1>>, <<1, 10>>}

blklen_o2 == blklen \div 2

tmax == Len(sig)

RSeq(s) == [t \in 1..Len(s) |-> RInt(s[t])]

\* range(0, tmax + blklen_o2, blklen_o2) is exhausted
RangeDone == tmid >= tmax + blklen_o2

\* hmax = min(hmax, int(0.5 * fs / enf))
ResolveHmaxNoHalf(hArg, fs_, enf_) == Min(hArg, fs_ \div enf_)

ResolveHmax(hArg, fs_, enf_) == Min(hArg, fs_ \div (2 * enf_))

DehumInit ==
    /\ sig \in UNION {[1..n -> SigVals] : n \in 1..MaxLen}
    /\ fs \in FsVals
    /\ enf \in EnfVals
    /\ hmaxArg \in 0..MaxHarm
    /\ blklen \in {2 * h : h \in 1..MaxHalf}
    /\ humf \in HumFreqs
    /\ deltaOrder \in DeltaOrders
    /\ DehumLocalsIdle
    /\ pc = "call" /\ ret = <<>>
    /\ base = <<>> /\ SpectrumIdle /\ WhitenIdle /\ ArmaIdle /\ DecimateIdle

\* lines 30-46: hmax, the window, the early return, the arrays
DehumCall ==
    /\ pc = "call"
    /\ hmax' = ResolveHmax(hmaxArg, fs, enf)
    /\ window' = OverlapWindow(hamming(blklen))
    /\ IF hmax' = 0
       THEN /\ ret' = RSeq(sig)
            /\ pc' = "returned"
            /\ UNCHANGED <<result, freq, cover>>
       ELSE /\ result' = [t \in 1..tmax |-> RZero]
            /\ freq' = Zeros(2 + (2 * tmax) \div blklen)
            /\ cover' = Zeros(tmax)
            /\ pc' = "for"
            /\ ret' = ret
    /\ kf' = 0 /\ tmid' = 0
    /\ UNCHANGED <<sig, fs, enf, hmaxArg, blklen, humf, deltaOrder, tstart, tstop,
                   wstart, wstop, f0, best_f, best_sigout, best_energy, dpos,
                   delta, shiftIdx, unfitted, nsolve>>

\* lines 49-69: the bounds of the block and the fit at the nominal frequency
BlockStart ==
    /\ pc = "for"
    /\ ~RangeDone
    /\ LET ts0 == tmid - blklen_o2
           tp0 == tmid + blklen_o2
           ts  == IF ts0 < 0 THEN 0 ELSE ts0
           ws  == IF ts0 < 0 THEN -ts0 ELSE 0
           tp  == IF tp0 > tmax THEN tmax ELSE tp0
           wp  == IF tp0 > tmax THEN blklen + tmax - tp0 ELSE blklen
           blk == Slice(sig, ts, tp)
       IN  /\ tstart' = ts /\ wstart' = ws /\ tstop' = tp /\ wstop' = wp
           /\ \E o \in SolveOutcomes(blk, hmax) :
                IF o = "LinAlgError"
                THEN /\ pc' = "LinAlgError"
                     /\ UNCHANGED <<f0, best_f, best_sigout, best_energy, dpos>>
                ELSE LET sigenf == single_estimate(blk, enf, fs, hmax)
                         sigout == [t \in 1..Len(blk) |-> blk[t] - sigenf[t]]
                     IN  /\ f0' = enf
                         /\ best_f' = enf
                         /\ best_sigout' = sigout
                         /\ best_energy' = SumSq(sigout)
                         /\ dpos' = 0
                         /\ pc' = "deltas"
    /\ nsolve' = nsolve + 1
    /\ UNCHANGED <<sig, fs, enf, hmaxArg, blklen, humf, deltaOrder, hmax, window,
                   result, freq, kf, tmid, delta, shiftIdx, ret, cover, unfitted>>

\* line 70: the next step size of the set
NextDelta ==
    /\ pc = "deltas"
    /\ dpos < Len(deltaOrder)
    /\ dpos' = dpos + 1
    /\ delta' = deltaOrder[dpos + 1]
    /\ shiftIdx' = 1
    /\ pc' = "shifts"
    /\ UNCHANGED <<sig, fs, enf, hmaxArg, blklen, humf, deltaOrder, hmax, window,
                   result, freq, kf, tmid, tstart, tstop, wstart, wstop, f0,
                   best_f, best_sigout, best_energy, ret, cover, unfitted, nsolve>>

\* if energy < best_energy
Improves(energy, best) == energy < best

\* lines 75-85: one candidate frequency; after the last one f0 = best_f
Candidate ==
    /\ pc = "shifts"
    /\ LET blk == Slice(sig, tstart, tstop)
           f   == f0 + Shifts[shiftIdx] * delta
       IN  \E o \in SolveOutcomes(blk, hmax) :
             IF o = "LinAlgError"
             THEN /\ pc' = "LinAlgError"
                  /\ UNCHANGED <<f0, best_f, best_sigout, best_energy, shiftIdx>>
             ELSE LET sigenf == single_estimate(blk, f, fs, hmax)
                      sigout == [t \in 1..Len(blk) |-> blk[t] - sigenf[t]]
                      energy == SumSq(sigout)
                      better == Improves(energy, best_energy)
                      bf     == IF better THEN f ELSE best_f
                  IN  /\ best_f' = bf
                      /\ best_sigout' = IF better THEN sigout ELSE best_sigout
                      /\ best_energy' = IF better THEN energy ELSE best_energy
                      /\ IF shiftIdx = Len(Shifts)
                         THEN f0' = bf /\ pc' = "deltas" /\ shiftIdx' = 0
                         ELSE f0' = f0 /\ pc' = "shifts" /\ shiftIdx' = shiftIdx + 1
    /\ nsolve' = nsolve + 1
    /\ UNCHANGED <<sig, fs, enf, hmaxArg, blklen, humf, deltaOrder, hmax, window,
                   result, freq, kf, tmid, tstart, tstop, wstart, wstop, dpos,
                   delta, ret, cover, unfitted>>

\* result[tstart:tstop] += best_sigout * window[wstart:wstop]
AccumulateUnweighted(res, sigout, win, ts, tp, ws) ==
    [t \in 1..Len(res) |->
        IF ts < t /\ t <= tp
        THEN RAdd(res[t], RInt(sigout[t - ts]))
        ELSE res[t]]

Accumulate(res, sigout, win, ts, tp, ws) ==
    [t \in 1..Len(res) |->
        IF ts < t /\ t <= tp
        THEN RAdd(res[t], RMul(RInt(sigout[t - ts]), win[ws + t - ts]))
        ELSE res[t]]

\* lines 91-95: the block is accumulated and its frequency recorded
SaveBlock ==
    /\ pc = "deltas"
    /\ dpos = Len(deltaOrder)
    /\ result' = Accumulate(result, best_sigout, window, tstart, tstop, wstart)
    /\ cover' = [t \in 1..tmax |->
                    IF tstart < t /\ t <= tstop THEN cover[t] + 1 ELSE cover[t]]
    /\ unfitted' = (unfitted /\ best_sigout = Slice(sig, tstart, tstop))
    /\ IF kf >= Len(freq)
       THEN pc' = "IndexError" /\ UNCHANGED <<freq, kf, tmid>>
       ELSE /\ freq' = [freq EXCEPT ![kf + 1] = best_f]
            /\ kf' = kf + 1
            /\ tmid' = tmid + blklen_o2
            /\ pc' = "for"
    /\ UNCHANGED <<sig, fs, enf, hmaxArg, blklen, humf, deltaOrder, hmax, window,
                   tstart, tstop, wstart, wstop, f0, best_f, best_sigout,
                   best_energy, dpos, delta, shiftIdx, ret, nsolve>>

\* line 119: return result
DehumReturn ==
    /\ pc = "for"
    /\ RangeDone
    /\ ret' = result
    /\ pc' = "returned"
    /\ UNCHANGED <<sig, fs, enf, hmaxArg, blklen, humf, deltaOrder, hmax, window,
                   result, freq, kf, tmid, tstart, tstop, wstart, wstop, f0,
                   best_f, best_sigout, best_energy, dpos, delta, shiftIdx, cover,
                   unfitted, nsolve>>

DehumNext ==
    \/ (DehumCall /\ UNCHANGED notDehum)
    \/ (BlockStart /\ UNCHANGED notDehum)
    \/ (NextDelta /\ UNCHANGED notDehum)
    \/ (Candidate /\ UNCHANGED notDehum)
    \/ (SaveBlock /\ UNCHANGED notDehum)
    \/ (DehumReturn /\ UNCHANGED notDehum)

SpecDehum == DehumInit /\ [][DehumNext]_vars

----------------------------------------------------------------------------
(* The window construction on its own, from any symmetric positive base *)

SymmetricBases(N) ==
    {b \in [1..N -> 1..WinMax] : \A i \in 1..N : b[i] = b[N + 1 - i]}

WindowInit ==
    /\ blklen \in {2 * h : h \in 1..MaxWinHalf}
    /\ base \in SymmetricBases(blklen)
    /\ sig = <<>> /\ fs = 0 /\ enf = 0 /\ hmaxArg = 0 /\ humf = 0
    /\ deltaOrder = <<>>
    /\ DehumLocalsIdle
    /\ pc = "base" /\ ret = <<>>
    /\ SpectrumIdle /\ WhitenIdle /\ ArmaIdle /\ DecimateIdle

\* lines 34-36 with the base window given
BuildWindow ==
    /\ pc = "base"
    /\ window' = OverlapWindow(RSeq(base))
    /\ pc' = "built"
    /\ UNCHANGED <<sig, fs, enf, hmaxArg, blklen, humf, deltaOrder, hmax,
                   result, freq, kf, tmid, tstart, tstop, wstart, wstop, f0, best_f,
                   best_sigout, best_energy, dpos, delta, shiftIdx, ret, cover,
                   unfitted, nsolve, base>>

WindowNext == BuildWindow /\ UNCHANGED <<spectrumVars, whitenVars, armaVars, decimateVars>>

SpecWindow == WindowInit /\ [][WindowNext]_vars

----------------------------------------------------------------------------
(* Claims about dehummer *)

AllEqual(s, v) == \A t \in 1..Len(s) : s[t] = v

\* C1: with every block's fit zero (each saved residual is the block itself)
\* the overlap-add returns the input exactly, and every sample has been
\* accumulated by exactly two blocks, the truncated first and last included.
C1_OverlapAddExact ==
    (pc = "returned" /\ hmax >= 1) =>
        /\ \A t \in 1..tmax : cover[t] = 2
        /\ unfitted => ret = RSeq(sig)

C1_Witness ==
    /\ pc = "returned" /\ hmax >= 1 /\ unfitted
    /\ tmax = 4 /\ blklen = 4 /\ AllEqual(sig, 2)
    /\ ret = RSeq(sig)

\* C2: the window and its shift by blklen/2 sum to 1:
\* window[i] + window[i + blklen/2] = 1 for every i in 0..blklen/2-1.
C2_WindowSumsToOne ==
    pc = "built" =>
        \A i \in 1..blklen_o2 : RAdd(window[i], window[i + blklen_o2]) = ROne

C2_Witness ==
    /\ pc = "built" /\ blklen = 6
    /\ base[1] # base[2] /\ base[2] # base[3] /\ base[1] # base[3]
    /\ window[1] # window[4]

\* C3: a zero signal with hmax >= 1 gives a zero output of the same length
\* and the frequency enf for every processed block, whatever the length of
\* the signal (no call fails).
C3_ZeroSignalIsNoOp ==
    (AllEqual(sig, 0) /\ pc # "base" /\ ResolveHmax(hmaxArg, fs, enf) >= 1) =>
        /\ pc \notin {"LinAlgError", "IndexError"}
        /\ \A j \in 1..kf : freq[j] = enf
        /\ pc = "returned" => ret = [t \in 1..tmax |-> RZero]

\* C4: when hmax resolves to 0 (no harmonic asked for, or none below
\* Nyquist: 2 * enf > fs) dehummer returns the input unmodified, solves no
\* regression and enters no block iteration.
C4_NoHarmonicReturnsInput ==
    (pc \notin {"call", "base"} /\ (hmaxArg = 0 \/ 2 * enf > fs)) =>
        /\ pc = "returned"
        /\ ret = RSeq(sig)
        /\ nsolve = 0
        /\ kf = 0 /\ tmid = 0 /\ result = <<>>

C4_Witness ==
    /\ pc = "returned" /\ hmaxArg >= 1 /\ 2 * enf > fs
    /\ ret = RSeq(sig) /\ \E t \in 1..tmax : sig[t] # 0

\* C10: in every block the 0.1 Hz pass (18 candidates around enf) is done,
\* and f0 moved to its best frequency, before any 0.01 Hz candidate is
\* evaluated: the 0.01 Hz step is never processed before the 0.1 Hz step.
C10_CoarseToFine ==
    pc = "shifts" =>
        /\ delta = 10 => (dpos = 1 /\ f0 = enf)
        /\ delta = 1 => dpos = 2

\* C11: the frequency track has one entry per processed block: kf never goes
\* past the end of freq, and when dehummer returns the blocks processed are
\* as many as the track is long (2 + 2*tmax//blklen), no entry being left at
\* its initial value 0.
C11_OneEntryPerBlock ==
    /\ pc # "IndexError"
    /\ (pc = "returned" /\ hmax >= 1) =>
          /\ kf = Len(freq)
          /\ \A j \in 1..Len(freq) : freq[j] # 0

\* What does hold of the track: the write index stays inside it, and at the
\* return the blocks are one fewer than the entries exactly when the length
\* of the signal is a multiple of the half block.
TrackOneLongOnMultiples ==
    /\ pc # "IndexError"
    /\ kf <= Len(freq)
    /\ (pc = "returned" /\ hmax >= 1) =>
          /\ kf = Len(freq) - (IF tmax % blklen_o2 = 0 THEN 1 ELSE 0)
          /\ \A j \in 1..kf : freq[j] # 0
          /\ \A j \in (kf + 1)..Len(freq) : freq[j] = 0

----------------------------------------------------------------------------
(* whiten: the notches on the spectrum (pactools/preprocess.py)            *)
(*                                                                         *)
(* fs, enf and d_enf are integers in Hz here.  The spectrum comes from     *)
(* Spectrum.periodogram, which is not part of the sources at hand: by the  *)
(* specification it is a sequence of fftlen non-negative values, symmetric *)
(* for a real signal (bin j mirrors bin fftlen - j).                       *)

MaxHalfFft == 4

PsdVals == {1, 3}

WhitenFsVals == {16}

WhitenEnfVals == {1, 4, 6, 9}

TolVals == {0, 1, 4}

\* int(x) on the quotient n / d, d > 0: truncation towards zero
IntTrunc(n, d) == IF n >= 0 THEN n \div d ELSE -((-n) \div d)

Mirror(j, n) == (n - j) % n

SymmetricPsds(n) ==
    {p \in [0..(n - 1) -> PsdVals] : \A j \in 0..(n - 1) : p[j] = p[Mirror(j, n)]}

\* ar.periodogram(sig): the spectrum of a real signal
periodogram(n) == {[j \in 0..(n - 1) |-> RInt(p[j])] : p \in SymmetricPsds(n)}

\* while k * (enf - d_enf) < fs / 2.0
HarmonicInSpectrum(k_) == 2 * k_ * (enf - d_enf) < fs

\* kmin = max((0, int(ar.fftlen * fmin / fs)))
KMin(k_) == Max(0, IntTrunc(fftlen * k_ * (enf - d_enf), fs))

\* kmax = min(ar.fftlen // 2, int(ar.fftlen * fmax / fs) + 1)
KMax(k_) == Min(fftlen \div 2, IntTrunc(fftlen * k_ * (enf + d_enf), fs) + 1)

\* Amin * linspace(1, 0, n, endpoint=False) + Amax * linspace(0, 1, n, endpoint=False)
Interpol(Amin, Amax, n) ==
    [i \in 1..n |-> RAdd(RMul(Amin, RNorm(n - (i - 1), n)),
                         RMul(Amax, RNorm(i - 1, n)))]

Reverse(s) == [i \in 1..Len(s) |-> s[Len(s) + 1 - i]]

\* the bound -x of a slice of an array of n elements: -0 is 0
NegBound(x, n) == IF x = 0 THEN 0 ELSE Max(0, n - x)

\* psd[-kmax:-kmin]: first index, and number of elements
NegSliceStart(lo, hi) == NegBound(hi, fftlen)

NegSliceLen(lo, hi) == Max(0, NegBound(lo, fftlen) - NegBound(hi, fftlen))

\* a[i:i+m] = v: numpy accepts len(v) = m, and broadcasts len(v) = 1
Assignable(m, v) == Len(v) = m \/ Len(v) = 1

AssignSlice(a, start, m, v) ==
    [j \in DOMAIN a |->
        IF start <= j /\ j < start + m
        THEN (IF Len(v) = 1 THEN v[1] ELSE v[j - start + 1])
        ELSE a[j]]

WhitenInit ==
    /\ fftlen \in {2 * h : h \in 2..MaxHalfFft}
    /\ psd \in periodogram(fftlen)
    /\ fs \in WhitenFsVals
    /\ enf \in WhitenEnfVals
    /\ d_enf \in TolVals
    /\ k = 1 /\ kmin = 0 /\ kmax = 0 /\ interpol = <<>>
    /\ pc = "while" /\ ret = <<>> /\ sig = <<>>
    /\ DehumIdle /\ base = <<>> /\ ArmaIdle /\ DecimateIdle

\* lines 205-220: one turn of the loop, for the harmonic k
NotchHarmonic ==
    /\ pc = "while"
    /\ HarmonicInSpectrum(k)
    /\ LET lo  == KMin(k)
           hi  == KMax(k)
           ip  == Interpol(psd[lo], psd[hi], hi - lo)
           pos == AssignSlice(psd, lo, hi - lo, ip)
       IN  /\ kmin' = lo /\ kmax' = hi /\ interpol' = ip
           /\ IF Assignable(NegSliceLen(lo, hi), Reverse(ip))
              THEN /\ psd' = AssignSlice(pos, NegSliceStart(lo, hi),
                                         NegSliceLen(lo, hi), Reverse(ip))
                   /\ k' = k + 1
                   /\ pc' = "while"
              ELSE /\ psd' = pos
                   /\ k' = k
                   /\ pc' = "ValueError"
    /\ UNCHANGED <<fs, enf, d_enf, fftlen, ret, sig>>

\* line 205: no harmonic is left below fs / 2
NotchesDone ==
    /\ pc = "while"
    /\ ~HarmonicInSpectrum(k)
    /\ pc' = "notched"
    /\ UNCHANGED <<fs, enf, d_enf, fftlen, ret, sig, psd, k, kmin, kmax, interpol>>

WhitenNext ==
    \/ (NotchHarmonic /\ UNCHANGED <<dehumOnly, base, armaVars, decimateVars>>)
    \/ (NotchesDone /\ UNCHANGED <<dehumOnly, base, armaVars, decimateVars>>)

SpecWhiten == WhitenInit /\ [][WhitenNext]_vars

\* the control flow of one turn of the loop: k += 1 at line 220, unless the
\* assignment of line 218 raised, which depends only on the number of
\* elements of interpol, kmax - kmin
NotchTurn ==
    /\ pc = "while"
    /\ HarmonicInSpectrum(k)
    /\ IF Assignable(NegSliceLen(KMin(k), KMax(k)), Zeros(KMax(k) - KMin(k)))
       THEN k' = k + 1 /\ pc' = "while"
       ELSE k' = k /\ pc' = "ValueError"

\* the interpreter goes on to the next statement as long as there is one:
\* a turn of the loop that can be taken is taken, and so is the exit
SpecWhitenFair ==
    /\ WhitenInit /\ [][WhitenNext]_vars
    /\ WF_<<pc, k>>(NotchTurn)
    /\ WF_pc(NotchesDone)

\* a harmonic has been notched, and the loop went on
Notched == pc \in {"while", "notched"} /\ k > 1

\* C5: after a notch the spectrum is still symmetric on the notched bins:
\* for every bin j of [kmin, kmax), bin fftlen - j holds the value of bin j.
C5_NotchKeepsSymmetry ==
    Notched => \A j \in kmin..(kmax - 1) : psd[Mirror(j, fftlen)] = psd[j]

\* C6: after every notch, kmin = 0 included, psd[kmin:kmax] is the
\* interpolation and psd[-kmax:-kmin] its reverse, both of kmax - kmin elements.
C6_NotchSlices ==
    (pc = "ValueError" \/ Notched) =>
        /\ pc # "ValueError"
        /\ NegSliceLen(kmin, kmax) = kmax - kmin
        /\ \A i \in 1..(kmax - kmin) :
             /\ psd[kmin + i - 1] = interpol[i]
             /\ psd[NegSliceStart(kmin, kmax) + i - 1] = interpol[kmax - kmin + 1 - i]

\* What does hold of the notch: the two slices are as C6 says when kmin >= 1.
NotchSlicesFromBinOne ==
    (Notched /\ kmin >= 1) =>
        /\ NegSliceLen(kmin, kmax) = kmax - kmin
        /\ \A i \in 1..(kmax - kmin) :
             /\ psd[kmin + i - 1] = interpol[i]
             /\ psd[NegSliceStart(kmin, kmax) + i - 1] = interpol[kmax - kmin + 1 - i]

\* C12: the notch loop terminates for every fs > 0, enf > 0 and d_enf >= 0,
\* d_enf >= enf included: after finitely many turns k is such that
\* k * (enf - d_enf) >= fs / 2 and the loop is left for the estimation.
C12_NotchLoopTerminates == <>(pc = "notched" /\ ~HarmonicInSpectrum(k))

\* What does hold with a tolerance as large as the frequency: kmin is 0 at
\* every turn, the guard never fails, and the loop ends on the ValueError of
\* the first turn whose notch has two bins or more.
WideToleranceEndsInError ==
    (d_enf >= enf) => ([](pc # "notched" /\ kmin = 0) /\ <>(pc = "ValueError"))

\* What does hold otherwise: a loop that has got past its first turn with
\* kmin >= 1 is left through its guard.
NarrowToleranceTerminates ==
    (pc = "while" /\ k > 1 /\ kmin >= 1) ~> (pc = "notched")

----------------------------------------------------------------------------
(* Arma.estimate (pactools/utils/arma.py)                                  *)
(*                                                                         *)
(* The spectrum self.psd is a public list that callers fill and rewrite in *)
(* place (whiten does); estimate reads it as it is, so a spectrum that a   *)
(* caller has corrected may hold a negative bin.  The transform lengths    *)
(* are those whose cosines are rational, so that the correlation is exact. *)
(* A fresh object has no AR_ and no MA: <<>> stands for the missing        *)
(* attribute.  The orders are kept to 1 and 2, where the solution of the   *)
(* Toeplitz system is written out.                                         *)

ArmaFftLens == {4, 6}

ArmaPsdVals == {-1, 0, 2}

OrdarVals == {1, 2}

OrdmaVals == {0, 1}

\* 2 cos(2 pi r / n)
Cos2(r, n) ==
    IF n = 4 THEN <<2, 0, -2, 0>>[(r % 4) + 1]
    ELSE <<2, 1, -1, -2, -1, 1>>[(r % 6) + 1]

RECURSIVE RSum(_)
RSum(s) == IF s = <<>> THEN RZero ELSE RAdd(Head(s), RSum(Tail(s)))

\* correl = fftpack.ifft(self.psd[numpsd][0], self.fftlen, 0).real
Correl(p, n, m) ==
    RMul(RSum([j \in 1..n |-> RMul(p[j - 1], RInt(Cos2((j - 1) * m, n)))]),
         RNorm(1, 2 * n))

\* R = linalg.toeplitz(col1, row1): first column col1, first row row1
Toeplitz(p, n, oa, om) ==
    [i \in 1..oa |-> [j \in 1..oa |->
        IF i >= j THEN Correl(p, n, om + (i - j))
                  ELSE Correl(p, n, Abs(om - (j - i)))]]

\* r = -correl[self.ordma + 1:self.ordma + nbcorr + 1]
Rhs(p, n, oa, om) == [i \in 1..oa |-> RNeg(Correl(p, n, om + i))]

Det(R) ==
    IF Len(R) = 1 THEN R[1][1]
    ELSE RSub(RMul(R[1][1], R[2][2]), RMul(R[1][2], R[2][1]))

\* linalg.solve(R, r) raises LinAlgError on a singular matrix
Singular(R) == Det(R) = RZero

Solve(R, r) ==
    IF Len(R) = 1 THEN <<RDiv(r[1], R[1][1])>>
    ELSE <<RDiv(RSub(RMul(r[1], R[2][2]), RMul(R[1][2], r[2])), Det(R)),
           RDiv(RSub(RMul(R[1][1], r[2]), RMul(r[1], R[2][1])), Det(R))>>

\* sigma2 = correl[0] + np.dot(AR, correl[1:self.ordar + 1])
Sigma2(p, n, oa, AR) ==
    RAdd(Correl(p, n, 0), RSum([i \in 1..oa |-> RMul(AR[i], Correl(p, n, i))]))

\* np.ones(1) * np.sqrt(sigma2): nan (and a warning) below zero
Sqrt(x) == IF x[1] < 0 THEN <<"nan">> ELSE <<"sqrt", x>>

\* the spectra given to estimate: at most one bin below zero
ArmaSpectra(n) ==
    {p \in [0..(n - 1) -> {RInt(v) : v \in ArmaPsdVals}] :
        Cardinality({j \in 0..(n - 1) : p[j][1] < 0}) <= 1}

ArmaInit ==
    /\ fftlen \in ArmaFftLens
    /\ psd \in ArmaSpectra(fftlen)
    /\ ordar \in OrdarVals
    /\ ordma \in OrdmaVals
    /\ AR_ = <<>> /\ MA = <<>>
    /\ pc = "estimate" /\ ret = <<>> /\ sig = <<>> /\ fs = 0 /\ enf = 0
    /\ DehumIdle /\ base = <<>> /\ WhitenIdle /\ DecimateIdle

\* lines 37-62, with nbcorr = self.ordar
Estimate ==
    /\ pc = "estimate"
    /\ LET R == Toeplitz(psd, fftlen, ordar, ordma)
           r == Rhs(psd, fftlen, ordar, ordma)
       IN  IF Singular(R)
           THEN pc' = "LinAlgError" /\ UNCHANGED <<AR_, MA>>
           ELSE /\ AR_' = Solve(R, r)
                /\ IF ordma = 0
                   THEN /\ MA' = Sqrt(Sigma2(psd, fftlen, ordar, AR_'))
                        /\ pc' = "estimated"
                   ELSE /\ MA' = MA
                        /\ pc' = "NotImplementedError"
    /\ UNCHANGED <<psd, fftlen, ordar, ordma, ret, sig, fs, enf>>

ArmaNext == Estimate /\ UNCHANGED <<dehumOnly, base, whitenVars, decimateVars>>

SpecArma == ArmaInit /\ [][ArmaNext]_vars

\* C7: estimate never completes with an invalid model: with a singular
\* Toeplitz system or a negative noise variance it fails with an error, and
\* stores no undefined gain.
C7_NoInvalidModel ==
    pc = "estimated" =>
        /\ ~Singular(Toeplitz(psd, fftlen, ordar, ordma))
        /\ Sigma2(psd, fftlen, ordar, AR_)[1] >= 0
        /\ MA # <<"nan">>

\* What does hold of estimate: a singular system is refused, nothing stored.
SingularSystemRaises ==
    (pc # "estimate" /\ Singular(Toeplitz(psd, fftlen, ordar, ordma)))
        => (pc = "LinAlgError" /\ AR_ = <<>> /\ MA = <<>>)

\* C8: with ordma # 0 estimate fails with the not-supported error and changes
\* nothing: AR_ and MA are after the call what they were before it.
C8_NotSupportedIsNoOp ==
    (pc # "estimate" /\ ordma # 0) =>
        /\ pc = "NotImplementedError"
        /\ AR_ = <<>>
        /\ MA = <<>>

----------------------------------------------------------------------------
(* decimate (pactools/preprocess.py)                                       *)
(*                                                                         *)
(* The samples do not matter to the control flow: sig is the number of     *)
(* samples of the signal, stages the factors of the filter stages run so   *)
(* far, ret the returned pair <<samples, fs>>.                             *)

MaxFactor == 33

DecLenVals == {600, 1000}

DecFsVals == {1200}

\* 0 in the following arrays means no decimation
dec_1st == <<0, 0, 2, 3, 4, 5, 6, 7, 2, 3, 2, 0, 3, 0, 2, 3, 4, 0, 3, 0, 4,
             3, 0, 0, 4, 5, 0, 3, 4, 0, 5>>

dec_2nd == <<0, 0, 0, 0, 0, 0, 0, 0, 4, 3, 5, 0, 4, 0, 7, 5, 4, 0, 6, 0, 5,
             7, 0, 0, 6, 5, 0, 9, 7, 0, 6>>

\* lst[i] of a Python list: a negative index counts from the end
InRange(lst, i) == -Len(lst) <= i /\ i < Len(lst)

GetItem(lst, i) == IF i >= 0 THEN lst[i + 1] ELSE lst[Len(lst) + i + 1]

\* _decimate(x, q): the filtered signal, one sample out of q (y[::q])
_decimate(n, q) == (n + q - 1) \div q

DecimateInit ==
    /\ decimation_factor \in (-MaxFactor)..MaxFactor
    /\ sig \in DecLenVals
    /\ fs \in DecFsVals
    /\ d1 = 0 /\ d2 = 0 /\ stages = <<>>
    /\ pc = "decimate" /\ ret = <<>> /\ enf = 0
    /\ DehumIdle /\ base = <<>> /\ SpectrumIdle /\ WhitenIdle /\ ArmaIdle

\* lines 55-67: the first factor is looked up; 0 is refused.
\* (raise(ValueError, ...) raises ValueError on Python 2, TypeError on Python 3)
LookupFirst ==
    /\ pc = "decimate"
    /\ IF ~InRange(dec_1st, decimation_factor)
       THEN pc' = "IndexError" /\ d1' = d1
       ELSE /\ d1' = GetItem(dec_1st, decimation_factor)
            /\ pc' = IF d1' = 0 THEN "ValueError" ELSE "first"
    /\ UNCHANGED <<decimation_factor, sig, fs, d2, stages, ret, enf>>

\* lines 69-71: the first stage, and the second factor
FirstStage ==
    /\ pc = "first"
    /\ sig' = _decimate(sig, d1)
    /\ stages' = Append(stages, d1)
    /\ d2' = GetItem(dec_2nd, decimation_factor)
    /\ pc' = "second"
    /\ UNCHANGED <<decimation_factor, fs, d1, ret, enf>>

\* lines 72-74: the second stage, when there is one
SecondStage ==
    /\ pc = "second"
    /\ d2 > 0
    /\ sig' = _decimate(sig, d2)
    /\ stages' = Append(stages, d2)
    /\ pc' = "return"
    /\ UNCHANGED <<decimation_factor, fs, d1, d2, ret, enf>>

NoSecondStage ==
    /\ pc = "second"
    /\ ~(d2 > 0)
    /\ pc' = "return"
    /\ UNCHANGED <<decimation_factor, sig, fs, d1, d2, stages, ret, enf>>

\* lines 76-79: fs = fs / decimation_factor; return sig, fs
DecimateReturn ==
    /\ pc = "return"
    /\ fs' = RNorm(fs, decimation_factor)
    /\ ret' = <<sig, fs'>>
    /\ pc' = "returned"
    /\ UNCHANGED <<decimation_factor, sig, d1, d2, stages, enf>>

DecimateNext ==
    \/ (LookupFirst /\ UNCHANGED <<dehumOnly, base, spectrumVars, whitenVars, armaVars>>)
    \/ (FirstStage /\ UNCHANGED <<dehumOnly, base, spectrumVars, whitenVars, armaVars>>)
    \/ (SecondStage /\ UNCHANGED <<dehumOnly, base, spectrumVars, whitenVars, armaVars>>)
    \/ (NoSecondStage /\ UNCHANGED <<dehumOnly, base, spectrumVars, whitenVars, armaVars>>)
    \/ (DecimateReturn /\ UNCHANGED <<dehumOnly, base, spectrumVars, whitenVars, armaVars>>)

SpecDecimate == DecimateInit /\ [][DecimateNext]_vars

\* the factors decimate supports: those of the table with a first stage
Supported(q) == q \in 0..30 /\ dec_1st[q + 1] # 0

\* C9: a factor that is not supported (table entry 0, or outside 0..30,
\* negative values included) is refused with an error before any filter
\* stage runs, and nothing is returned.
C9_UnsupportedFactorRefused ==
    (pc # "decimate" /\ ~Supported(decimation_factor)) =>
        /\ pc \in {"ValueError", "IndexError"}
        /\ stages = <<>>
        /\ ret = <<>>

\* What does hold of decimate: from 0 upwards an unsupported factor is refused.
UnsupportedFromZeroRefused ==
    (pc # "decimate" /\ ~Supported(decimation_factor) /\ decimation_factor >= 0) =>
        /\ pc \in {"ValueError", "IndexError"}
        /\ stages = <<>>
        /\ ret = <<>>

====
